---- MODULE Spec2Model ----
(***************************************************************************)
(* mc-status-bot: a Discord bot whose "status" slash command queries a     *)
(* Minecraft server with the Server List Ping protocol and answers with an *)
(* embed.  The model follows src/src/lib.rs: the event handler             *)
(* Bot::interaction_create and the query get_server_status, one handler    *)
(* invocation per interaction event, every .await a point where other      *)
(* handlers may run.  The protocol client the query calls                  *)
(* (async_minecraft_ping: connect, status, ping) is not part of the        *)
(* source tree; its steps are modelled from the specification's section    *)
(* 4.3 and hand their Result to the code of lib.rs through `ret`.          *)
(***************************************************************************)
EXTENDS Integers, Sequences, FiniteSets, TLC

\* ------------------------------------------------------------------ bounds
NumInteractions == 2    \* interaction events delivered to the bot
MaxClock == 2           \* the clock runs from 0 to MaxClock milliseconds

\* --------------------------------------------------------------- constants
PingPayload == 299792458     \* lib.rs:137
StatusPacketId == 0          \* Status Response packet ID
PongPacketId == 1            \* Pong packet ID
DefaultPort == 25565         \* the port of a config built without one
MaxVarIntBytes == 5          \* the longest VarInt

H == 1..NumInteractions

\* A connection is named by the handler that opened it and the number of the
\* attempt; NoConn is the name of none.
NoConn == << 0, 0 >>

\* The (host, port) the bot can be started with (MC_SERVER_ADDR, MC_SERVER_PORT).
Targets == { <<"mc.example.com", 25565>>, <<"mc.example.com", 25566>> }

\* The interaction events serenity can deliver to interaction_create.
Interactions ==
    { [type |-> "ApplicationCommand", name |-> "status"],
      [type |-> "ApplicationCommand", name |-> "other"],
      [type |-> "MessageComponent", name |-> ""] }

\* ConnectionConfig: the target of a query; NoConfig before it is built.
NoConfig == <<"", 0>>

NoInteraction == [type |-> "none", name |-> ""]

\* What a read of the codec gives: a value (and, of a packet, its body) or an
\* error.
NoRead == [tag |-> "none", value |-> 0, used |-> 0, body |-> <<>>, err |-> ""]
ReadOk(v, used, body) == [tag |-> "ok", value |-> v, used |-> used, body |-> body, err |-> ""]
ReadErr(e) == [tag |-> "err", value |-> 0, used |-> 0, body |-> <<>>, err |-> e]

NoCodec ==
    [phase |-> "idle", n |-> 0, id |-> 0, body |-> <<>>, bytes |-> <<>>,
     cut |-> FALSE, out |-> NoRead]

\* The integers the codec is given: both sides of every change of the
\* encoding's length, and the ends of the range.
VarIntInputs ==
    { 0, 1, 127, 128, 300, 16383, 16384, 2097151, 2097152, 268435455,
      268435456, 2147483647 }

PacketIds == { 0, 1, 127, 128, 16384 }

\* Bodies: none, short ones whose first byte has or lacks the high bit, and two
\* long enough to take the length prefix from one byte to two.
Bodies ==
    { <<>>, << 0 >>, << 255 >>, << 1, 128 >>, << 128, 1 >>,
      [i \in 1..126 |-> 7], [i \in 1..127 |-> 7] }

\* async_minecraft_ping::ServerDescription
Plain(t) == [variant |-> "Plain", text |-> t]
Object(t) == [variant |-> "Object", text |-> t]

\* players.sample: Option<Vec<Player>>
None == [some |-> FALSE, players |-> <<>>]
Some(ps) == [some |-> TRUE, players |-> ps]
Player(n, i) == [name |-> n, id |-> i]

\* The status payloads a server answers with (StatusResponse, parsed).
Statuses ==
    { [description |-> Plain("A Server"), online |-> 2, max |-> 20,
       sample |-> Some(<<Player("Alice", "x"), Player("Bob", "y")>>)],
      [description |-> Object("A Server"), online |-> 0, max |-> 20,
       sample |-> None],
      [description |-> Plain("B"), online |-> 0, max |-> 10,
       sample |-> Some(<<>>)] }

NoStatus == [description |-> Plain(""), online |-> 0, max |-> 0, sample |-> None]

\* The status payloads the rendering is explored with: both description
\* variants over two texts, two player counts, and the sample absent, empty,
\* of one entry, of two entries in both orders and of two entries of one name.
Samples ==
    { None, Some(<<>>), Some(<< Player("Alice", "x") >>),
      Some(<< Player("Alice", "x"), Player("Bob", "y") >>),
      Some(<< Player("Bob", "y"), Player("Alice", "x") >>),
      Some(<< Player("Bob", "y"), Player("Bob", "z") >>) }

RenderStatuses ==
    { [description |-> d, online |-> c[1], max |-> c[2], sample |-> sm] :
        d \in { Plain("A Server"), Object("A Server"), Plain("Hi"), Object("Hi") },
        c \in { << 0, 20 >>, << 2, 20 >> },
        sm \in Samples }

\* What the server does when the status response is due.
StatusRepliesOf(statuses) ==
    { [kind |-> "packet", id |-> StatusPacketId, json |-> "ok", status |-> s] : s \in statuses }
    \cup { [kind |-> "packet", id |-> 2, json |-> "ok", status |-> NoStatus],
           [kind |-> "packet", id |-> StatusPacketId, json |-> "malformed", status |-> NoStatus],
           [kind |-> "closed", id |-> 0, json |-> "", status |-> NoStatus],
           [kind |-> "silent", id |-> 0, json |-> "", status |-> NoStatus] }

StatusReplies == StatusRepliesOf(Statuses)

\* The replies the interleavings are explored with: two status payloads, a
\* packet of another ID, and silence.
FewStatusReplies ==
    { r \in StatusRepliesOf({ s \in Statuses : s.max = 20 }) :
        r.kind \in {"packet", "silent"} /\ r.json = "ok" }

\* What the server does when the pong is due.
PongReplies ==
    { [kind |-> "packet", id |-> PongPacketId, payload |-> PingPayload],
      [kind |-> "packet", id |-> PongPacketId, payload |-> 7],
      [kind |-> "packet", id |-> 2, payload |-> PingPayload],
      [kind |-> "closed", id |-> 0, payload |-> 0],
      [kind |-> "silent", id |-> 0, payload |-> 0] }

NoStatusReply == [kind |-> "none", id |-> 0, json |-> "", status |-> NoStatus]
NoPongReply == [kind |-> "none", id |-> 0, payload |-> 0]

\* The part of a query that is not the program's doing: whether the connect and
\* each write went through, and what the server answered.
NoExchange ==
    [connect |-> "none", handshake |-> "none", request |-> "none",
     statusReply |-> NoStatusReply, ping |-> "none", pongReply |-> NoPongReply]

Went(ok) == IF ok THEN "ok" ELSE "fail"

\* The replies the interleavings are explored with: the echo, a packet of
\* another ID, and silence.
FewPongReplies ==
    { r \in PongReplies : r.kind \in {"packet", "silent"} /\ r.payload \in {0, PingPayload} }

\* Result<T, ServerError> of a call into the protocol client.
NoRet == [tag |-> "none", err |-> "", conn |-> NoConn, status |-> NoStatus]
Ok(c, s) == [tag |-> "ok", err |-> "", conn |-> c, status |-> s]
Err(e) == [tag |-> "err", err |-> e, conn |-> NoConn, status |-> NoStatus]

\* CreateEmbed: title, description and footer as token sequences.
NoEmbed == [title |-> <<>>, description |-> <<>>, footer |-> <<>>]

\* Result<CreateEmbed, ServerError> of get_server_status.
NoResult == [tag |-> "none", err |-> "", embed |-> NoEmbed]

VARIABLES
    mc_server,   \* Bot.mc_server, fixed at startup
    now,         \* the clock, in milliseconds
    pc,          \* pc[h]: where handler invocation h stands
    interaction, \* interaction[h]: the event handler h was called with
    config,      \* config[h]: the ConnectionConfig get_server_status built
    connection,  \* connection[h]: the connection get_server_status holds
    sockets,     \* every TCP connection opened so far: owner, target, state
    inflight,    \* inflight[h]: the client calls h has issued and not got back
    ret,         \* ret[h]: the Result the last client call returned
    status,      \* status[h]: connection.status once received
    start,       \* start[h]: the Instant taken before the ping
    result,      \* result[h]: what get_server_status returned
    responses,   \* responses[h]: the embeds h asked Discord to send
    log,         \* log[h]: what h wrote to the log (error!, eprintln!)
    trace,       \* trace[h]: the operations of h in the order they happened
    exchange,    \* exchange[h]: what the network and the server did to h's query
    codec        \* the frame codec at work: what it was given, wrote and read

vars == << mc_server, now, pc, interaction, config, connection, sockets,
           inflight, ret, status, start, result, responses, log, trace,
           exchange, codec >>

Init ==
    /\ mc_server \in Targets
    /\ now = 0
    /\ pc = [h \in H |-> "idle"]
    /\ interaction = [h \in H |-> NoInteraction]
    /\ config = [h \in H |-> NoConfig]
    /\ connection = [h \in H |-> NoConn]
    /\ sockets = [c \in {} |-> [owner |-> 0, target |-> NoConfig, state |-> "open"]]
    /\ inflight = [h \in H |-> {}]
    /\ ret = [h \in H |-> NoRet]
    /\ status = [h \in H |-> NoStatus]
    /\ start = [h \in H |-> 0]
    /\ result = [h \in H |-> NoResult]
    /\ responses = [h \in H |-> <<>>]
    /\ log = [h \in H |-> <<>>]
    /\ trace = [h \in H |-> <<>>]
    /\ exchange = [h \in H |-> NoExchange]
    /\ codec = NoCodec

Event(o, c) == [op |-> o, conn |-> c]

Emit(h, evs) == trace' = [trace EXCEPT ![h] = @ \o evs]

\* ------------------------------------------------- pure parts of lib.rs

\* Every name followed by a separator, the last one too.
JoinTrailing(names) ==
    [i \in 1..(2 * Len(names)) |-> IF i % 2 = 1 THEN names[(i + 1) \div 2] ELSE "\n"]

\* Vec<String>::join("\n"): the names with one separator between neighbours.
RECURSIVE Join(_)
Join(names) ==
    IF Len(names) = 0 THEN <<>>
    ELSE IF Len(names) = 1 THEN << names[1] >>
    ELSE << names[1], "\n" >> \o Join(Tail(names))

\* An absent sample rendered with a text of its own.
PlayersTextMarksAbsent(s) ==
    IF s.sample.some
    THEN Join([i \in 1..Len(s.sample.players) |-> s.sample.players[i].name])
    ELSE << "(hidden)" >>

\* lib.rs:115-123: the sample's names joined, "" when there is no sample.
PlayersText(s) ==
    IF s.sample.some
    THEN Join([i \in 1..Len(s.sample.players) |-> s.sample.players[i].name])
    ELSE <<>>

\* The Object variant shown as the structure it is, not as its text.
DescTextShowsObject(s) ==
    IF s.description.variant = "Plain" THEN s.description.text
    ELSE "{\"text\":\"" \o s.description.text \o "\"}"

\* lib.rs:125-129: both description variants give their text.
DescText(s) ==
    IF s.description.variant = "Plain" THEN s.description.text
    ELSE s.description.text

\* lib.rs:153-165: the embed of a successful query.
StatusEmbed(s, latency) ==
    [title |-> << DescText(s) >>,
     description |-> << "Players (", ToString(s.online), "/", ToString(s.max), "):\n" >>
                     \o PlayersText(s),
     footer |-> << "Ping: ", ToString(latency), " ms" >>]

\* lib.rs:44-46: the embed of a failed query, the error's text and nothing else.
ErrorEmbed(e) == [title |-> <<>>, description |-> << e >>, footer |-> <<>>]

OkResult(embed) == [tag |-> "ok", err |-> "", embed |-> embed]
ErrResult(e) == [tag |-> "err", err |-> e, embed |-> NoEmbed]

\* A connection that stays open when its owner goes out of scope.
DroppedLeaks(c) == sockets

\* Dropping a connection closes its socket; dropping none closes nothing.
Dropped(c) ==
    IF c = NoConn THEN sockets
    ELSE [sockets EXCEPT ![c].state = "closed"]

DropEvents(c) == IF c = NoConn THEN <<>> ELSE << Event("close", c) >>

\* ------------------------------------------ Bot::interaction_create, part 1

\* Every application command is answered with the status, whatever its name.
InteractionCreateAnyCommand(h, i) ==
    /\ pc[h] = "idle"
    /\ \A g \in H : g < h => pc[g] /= "idle"
    /\ interaction' = [interaction EXCEPT ![h] = i]
    /\ pc' = [pc EXCEPT ![h] =
                IF i.type /= "ApplicationCommand" THEN "done" ELSE "gss_entry"]
    /\ UNCHANGED << codec, mc_server, now, config, connection, sockets, inflight, ret,
                    status, start, result, responses, log, trace, exchange >>

\* lib.rs:36-40, 50: only an application command is handled; "status" starts the
\* query, any other command name hits unreachable!().  Events are numbered in
\* the order they arrive.
InteractionCreate(h, i) ==
    /\ pc[h] = "idle"
    /\ \A g \in H : g < h => pc[g] /= "idle"
    /\ interaction' = [interaction EXCEPT ![h] = i]
    /\ pc' = [pc EXCEPT ![h] =
                IF i.type /= "ApplicationCommand" THEN "done"
                ELSE IF i.name = "status" THEN "gss_entry"
                ELSE "panicked"]
    /\ UNCHANGED << codec, mc_server, now, config, connection, sockets, inflight, ret,
                    status, start, result, responses, log, trace, exchange >>

\* ------------------------------------------------------- get_server_status

\* Leaving get_server_status with result r: the locals go out of scope, which
\* drops (closes) the connection it holds (lib.rs:111, 113, 137 `?`; 167-168).
Return(h, r) ==
    /\ result' = [result EXCEPT ![h] = r]
    /\ sockets' = Dropped(connection[h])
    /\ connection' = [connection EXCEPT ![h] = NoConn]
    /\ Emit(h, DropEvents(connection[h]) \o << Event("return_" \o r.tag, NoConn) >>)
    /\ pc' = [pc EXCEPT ![h] = "returned"]

\* ConnectionConfig::build: the host with the protocol's default port.
Build(address) == << address, DefaultPort >>

\* ConnectionConfig::with_port: the same config with its port replaced.
WithPort(cfg, port) == << cfg[1], port >>

\* The config built from the host alone, the configured port never applied.
GssConnectDefaultPort(h) ==
    /\ pc[h] = "gss_entry"
    /\ config' = [config EXCEPT ![h] = Build(mc_server[1])]
    /\ inflight' = [inflight EXCEPT ![h] = @ \cup {"connect"}]
    /\ Emit(h, << Event("connect", NoConn) >>)
    /\ pc' = [pc EXCEPT ![h] = "in_connect"]
    /\ UNCHANGED << codec, mc_server, now, interaction, connection, sockets, ret,
                    status, start, result, responses, log, exchange >>

\* lib.rs:109-111: build the config from the bot's target, call connect().
GssConnect(h) ==
    /\ pc[h] = "gss_entry"
    /\ config' = [config EXCEPT ![h] = WithPort(Build(mc_server[1]), mc_server[2])]
    /\ inflight' = [inflight EXCEPT ![h] = @ \cup {"connect"}]
    /\ Emit(h, << Event("connect", NoConn) >>)
    /\ pc' = [pc EXCEPT ![h] = "in_connect"]
    /\ UNCHANGED << codec, mc_server, now, interaction, connection, sockets, ret,
                    status, start, result, responses, log, exchange >>

\* A connect() that is tried again when it failed.
GssAfterConnectRetries(h) ==
    /\ pc[h] = "ret_connect"
    /\ IF ret[h].tag = "err"
       THEN /\ pc' = [pc EXCEPT ![h] = "gss_entry"]
            /\ UNCHANGED << connection, inflight, sockets, result, trace >>
       ELSE /\ connection' = [connection EXCEPT ![h] = ret[h].conn]
            /\ inflight' = [inflight EXCEPT ![h] = @ \cup {"status"}]
            /\ pc' = [pc EXCEPT ![h] = "status_handshake"]
            /\ UNCHANGED << sockets, result, trace >>
    /\ ret' = [ret EXCEPT ![h] = NoRet]
    /\ UNCHANGED << codec, mc_server, now, interaction, config, status, start,
                    responses, log, exchange >>

\* A pooled connection: the query takes a connection another query has open,
\* when there is one, in place of the one it opened.
GssAfterConnectPooled(h) ==
    /\ pc[h] = "ret_connect"
    /\ IF ret[h].tag = "err"
       THEN /\ Return(h, ErrResult(ret[h].err))
            /\ UNCHANGED inflight
       ELSE /\ LET others == { c \in DOMAIN sockets :
                                 sockets[c].owner /= h /\ sockets[c].state = "open" }
               IN  connection' = [connection EXCEPT ![h] =
                                    IF others = {} THEN ret[h].conn
                                    ELSE CHOOSE c \in others : TRUE]
            /\ inflight' = [inflight EXCEPT ![h] = @ \cup {"status"}]
            /\ pc' = [pc EXCEPT ![h] = "status_handshake"]
            /\ UNCHANGED << sockets, result, trace >>
    /\ ret' = [ret EXCEPT ![h] = NoRet]
    /\ UNCHANGED << codec, mc_server, now, interaction, config, status, start,
                    responses, log, exchange >>

\* The calls in the wrong order: ping() right after connect(), no status().
GssAfterConnectPingsFirst(h) ==
    /\ pc[h] = "ret_connect"
    /\ IF ret[h].tag = "err"
       THEN /\ Return(h, ErrResult(ret[h].err))
            /\ UNCHANGED inflight
       ELSE /\ connection' = [connection EXCEPT ![h] = ret[h].conn]
            /\ inflight' = [inflight EXCEPT ![h] = @ \cup {"ping"}]
            /\ pc' = [pc EXCEPT ![h] = "ping_send"]
            /\ UNCHANGED << sockets, result, trace >>
    /\ ret' = [ret EXCEPT ![h] = NoRet]
    /\ UNCHANGED << codec, mc_server, now, interaction, config, status, start,
                    responses, log, exchange >>

\* lib.rs:111 `?` and 113: an error of connect() is returned; otherwise the
\* connection is bound and status() is called on it.
GssAfterConnect(h) ==
    /\ pc[h] = "ret_connect"
    /\ IF ret[h].tag = "err"
       THEN /\ Return(h, ErrResult(ret[h].err))
            /\ UNCHANGED inflight
       ELSE /\ connection' = [connection EXCEPT ![h] = ret[h].conn]
            /\ inflight' = [inflight EXCEPT ![h] = @ \cup {"status"}]
            /\ pc' = [pc EXCEPT ![h] = "status_handshake"]
            /\ UNCHANGED << sockets, result, trace >>
    /\ ret' = [ret EXCEPT ![h] = NoRet]
    /\ UNCHANGED << codec, mc_server, now, interaction, config, status, start,
                    responses, log, exchange >>

\* A status cache across queries: a status another query holds is used in
\* place of the one this query received.
GssAfterStatusCached(h) ==
    /\ pc[h] = "ret_status"
    /\ IF ret[h].tag = "err"
       THEN /\ Return(h, ErrResult(ret[h].err))
            /\ UNCHANGED << inflight, status, start >>
       ELSE /\ LET cached == { g \in H : g /= h /\ status[g] /= NoStatus }
               IN  status' = [status EXCEPT ![h] =
                                IF cached = {} THEN ret[h].status
                                ELSE status[CHOOSE g \in cached : TRUE]]
            /\ start' = [start EXCEPT ![h] = now]
            /\ inflight' = [inflight EXCEPT ![h] = @ \cup {"ping"}]
            /\ pc' = [pc EXCEPT ![h] = "ping_send"]
            /\ UNCHANGED << connection, sockets, result, trace >>
    /\ ret' = [ret EXCEPT ![h] = NoRet]
    /\ UNCHANGED << codec, mc_server, now, interaction, config, responses, log,
                    exchange >>

\* status().await.unwrap() in place of `?`: an error of status() is a panic.
GssAfterStatusUnwraps(h) ==
    /\ pc[h] = "ret_status"
    /\ IF ret[h].tag = "err"
       THEN /\ pc' = [pc EXCEPT ![h] = "panicked"]
            /\ UNCHANGED << inflight, status, start, connection, sockets, result,
                            trace >>
       ELSE /\ status' = [status EXCEPT ![h] = ret[h].status]
            /\ start' = [start EXCEPT ![h] = now]
            /\ inflight' = [inflight EXCEPT ![h] = @ \cup {"ping"}]
            /\ pc' = [pc EXCEPT ![h] = "ping_send"]
            /\ UNCHANGED << connection, sockets, result, trace >>
    /\ ret' = [ret EXCEPT ![h] = NoRet]
    /\ UNCHANGED << codec, mc_server, now, interaction, config, responses, log,
                    exchange >>

\* The clock is not read before the ping: the latency is taken from the
\* Instant the handler began with.
GssAfterStatusKeepsStart(h) ==
    /\ pc[h] = "ret_status"
    /\ IF ret[h].tag = "err"
       THEN /\ Return(h, ErrResult(ret[h].err))
            /\ UNCHANGED << inflight, status, start >>
       ELSE /\ status' = [status EXCEPT ![h] = ret[h].status]
            /\ inflight' = [inflight EXCEPT ![h] = @ \cup {"ping"}]
            /\ pc' = [pc EXCEPT ![h] = "ping_send"]
            /\ UNCHANGED << connection, sockets, result, trace, start >>
    /\ ret' = [ret EXCEPT ![h] = NoRet]
    /\ UNCHANGED << codec, mc_server, now, interaction, config, responses, log, exchange >>

\* lib.rs:113 `?`, 115-137: an error of status() is returned; otherwise the
\* status is kept, the clock is read and ping(299792458) is called.
GssAfterStatus(h) ==
    /\ pc[h] = "ret_status"
    /\ IF ret[h].tag = "err"
       THEN /\ Return(h, ErrResult(ret[h].err))
            /\ UNCHANGED << inflight, status, start >>
       ELSE /\ status' = [status EXCEPT ![h] = ret[h].status]
            /\ start' = [start EXCEPT ![h] = now]
            /\ inflight' = [inflight EXCEPT ![h] = @ \cup {"ping"}]
            /\ pc' = [pc EXCEPT ![h] = "ping_send"]
            /\ UNCHANGED << connection, sockets, result, trace >>
    /\ ret' = [ret EXCEPT ![h] = NoRet]
    /\ UNCHANGED << codec, mc_server, now, interaction, config, responses, log, exchange >>

\* A failed ping() answered with the status that was received and no latency.
GssAfterPingKeepsStatus(h) ==
    /\ pc[h] = "ret_ping"
    /\ IF ret[h].tag = "err"
       THEN Return(h, OkResult(StatusEmbed(status[h], 0)))
       ELSE Return(h, OkResult(StatusEmbed(status[h], now - start[h])))
    /\ ret' = [ret EXCEPT ![h] = NoRet]
    /\ UNCHANGED << codec, mc_server, now, interaction, config, inflight, status,
                    start, responses, log, exchange >>

\* lib.rs:137 `?`, 138-167: an error of ping() is returned; otherwise the
\* latency is the time elapsed since start and the embed is returned.
GssAfterPing(h) ==
    /\ pc[h] = "ret_ping"
    /\ IF ret[h].tag = "err"
       THEN Return(h, ErrResult(ret[h].err))
       ELSE Return(h, OkResult(StatusEmbed(status[h], now - start[h])))
    /\ ret' = [ret EXCEPT ![h] = NoRet]
    /\ UNCHANGED << codec, mc_server, now, interaction, config, inflight, status,
                    start, responses, log, exchange >>

\* ------------------------------------------ Bot::interaction_create, part 2

\* An error answered with an empty embed: the error's text is left out.
ResponseContentDropsError(r) ==
    IF r.tag = "ok" THEN r.embed ELSE NoEmbed

\* lib.rs:40-48: the embed of the query, or the error logged and put in an embed.
ResponseContent(r) ==
    IF r.tag = "ok" THEN r.embed ELSE ErrorEmbed(r.err)

\* A handler that runs the query again when it failed.
HandlerRespondRetries(h) ==
    /\ pc[h] = "returned"
    /\ IF result[h].tag = "err"
       THEN /\ pc' = [pc EXCEPT ![h] = "gss_entry"]
            /\ UNCHANGED << responses, log, trace >>
       ELSE /\ responses' = [responses EXCEPT ![h] = Append(@, ResponseContent(result[h]))]
            /\ Emit(h, << Event("respond", NoConn) >>)
            /\ pc' = [pc EXCEPT ![h] = "in_respond"]
            /\ UNCHANGED log
    /\ UNCHANGED << codec, mc_server, now, interaction, config, connection, sockets,
                    inflight, ret, status, start, result, exchange >>

\* lib.rs:40-58: build the response and call create_interaction_response.
HandlerRespond(h) ==
    /\ pc[h] = "returned"
    /\ responses' = [responses EXCEPT ![h] = Append(@, ResponseContent(result[h]))]
    /\ log' = [log EXCEPT ![h] =
                 IF result[h].tag = "err" THEN Append(@, "error: " \o result[h].err)
                 ELSE @]
    /\ Emit(h, << Event("respond", NoConn) >>)
    /\ pc' = [pc EXCEPT ![h] = "in_respond"]
    /\ UNCHANGED << codec, mc_server, now, interaction, config, connection, sockets,
                    inflight, ret, status, start, result, exchange >>

\* A response that was not delivered is sent again.
HandlerAfterRespondResends(h, delivered) ==
    /\ pc[h] = "in_respond"
    /\ log' = [log EXCEPT ![h] =
                 IF delivered THEN @ ELSE Append(@, "Cannot respond to slash command")]
    /\ IF delivered
       THEN /\ pc' = [pc EXCEPT ![h] = "done"]
            /\ config' = [config EXCEPT ![h] = NoConfig]
            /\ status' = [status EXCEPT ![h] = NoStatus]
            /\ start' = [start EXCEPT ![h] = 0]
            /\ result' = [result EXCEPT ![h] = NoResult]
            /\ trace' = [trace EXCEPT ![h] = <<>>]
            /\ exchange' = [exchange EXCEPT ![h] = NoExchange]
       ELSE /\ pc' = [pc EXCEPT ![h] = "returned"]
            /\ UNCHANGED << config, status, start, result, trace, exchange >>
    /\ UNCHANGED << codec, mc_server, now, interaction, connection, sockets,
                    inflight, ret, responses >>

\* lib.rs:60-64: the response was delivered or not; a failure is printed.  The
\* handler ends and its locals (the query's result among them) are gone.
HandlerAfterRespond(h, delivered) ==
    /\ pc[h] = "in_respond"
    /\ log' = [log EXCEPT ![h] =
                 IF delivered THEN @ ELSE Append(@, "Cannot respond to slash command")]
    /\ pc' = [pc EXCEPT ![h] = "done"]
    /\ config' = [config EXCEPT ![h] = NoConfig]
    /\ status' = [status EXCEPT ![h] = NoStatus]
    /\ start' = [start EXCEPT ![h] = 0]
    /\ result' = [result EXCEPT ![h] = NoResult]
    /\ trace' = [trace EXCEPT ![h] = <<>>]
    /\ exchange' = [exchange EXCEPT ![h] = NoExchange]
    /\ UNCHANGED << codec, mc_server, now, interaction, connection, sockets,
                    inflight, ret, responses >>

\* ------------------------------------- the protocol client (section 4.3)

\* The name of the next connection h opens.
FreshConn(h) == << h, Cardinality({ c \in DOMAIN sockets : c[1] = h }) + 1 >>

\* connect(): opens a TCP stream to the config's (host, port), or fails.
LibConnect(h, ok) ==
    /\ pc[h] = "in_connect"
    /\ IF ok
       THEN /\ sockets' = sockets @@
                   (FreshConn(h) :> [owner |-> h, target |-> config[h], state |-> "open"])
            /\ ret' = [ret EXCEPT ![h] = Ok(FreshConn(h), NoStatus)]
            /\ Emit(h, << Event("connected", FreshConn(h)) >>)
       ELSE /\ ret' = [ret EXCEPT ![h] = Err("ConnectError")]
            /\ Emit(h, << Event("failed", NoConn) >>)
            /\ UNCHANGED sockets
    /\ exchange' = [exchange EXCEPT ![h].connect = Went(ok)]
    /\ inflight' = [inflight EXCEPT ![h] = @ \ {"connect"}]
    /\ pc' = [pc EXCEPT ![h] = "ret_connect"]
    /\ UNCHANGED << codec, mc_server, now, interaction, config, connection, status,
                    start, result, responses, log >>

\* A step of status() or ping() that ends the call with Result r, after the
\* events evs; a call that ends in an error has failed.
LibReturn(h, call, r, next, evs) ==
    /\ ret' = [ret EXCEPT ![h] = r]
    /\ inflight' = [inflight EXCEPT ![h] = @ \ {call}]
    /\ pc' = [pc EXCEPT ![h] = next]
    /\ Emit(h, evs \o (IF r.tag = "err"
                        THEN << Event("failed", connection[h]) >> ELSE <<>>))

\* A write of the packet named op: it goes through and the call goes on at
\* next, or it fails and the call ends with a typed error.
LibSend(h, call, op, ok, next, failed) ==
    IF ok
    THEN /\ Emit(h, << Event(op, connection[h]) >>)
         /\ pc' = [pc EXCEPT ![h] = next]
         /\ UNCHANGED << ret, inflight >>
    ELSE LibReturn(h, call, Err("Timeout"), failed, <<>>)

\* status(), first step: the handshake packet (ID 0x00, next state 1) is written.
LibSendHandshake(h, ok) ==
    /\ pc[h] = "status_handshake"
    /\ LibSend(h, "status", "handshake", ok, "status_request", "ret_status")
    /\ exchange' = [exchange EXCEPT ![h].handshake = Went(ok)]
    /\ UNCHANGED << codec, mc_server, now, interaction, config, connection, sockets,
                    status, start, result, responses, log >>

\* status(), second step: the Status Request packet (ID 0x00, empty) is written.
LibSendStatusRequest(h, ok) ==
    /\ pc[h] = "status_request"
    /\ LibSend(h, "status", "status_request", ok, "status_await", "ret_status")
    /\ exchange' = [exchange EXCEPT ![h].request = Went(ok)]
    /\ UNCHANGED << codec, mc_server, now, interaction, config, connection, sockets,
                    status, start, result, responses, log >>

\* The Result of status() for what the server sent: the response must be a
\* packet with ID 0x00 whose JSON decodes; anything else is a typed error.
StatusResultOf(c, reply) ==
    IF reply.kind = "closed" THEN Err("FrameError")
    ELSE IF reply.kind = "silent" THEN Err("Timeout")
    ELSE IF reply.id /= StatusPacketId THEN Err("ProtocolError")
    ELSE IF reply.json /= "ok" THEN Err("MalformedDescription")
    ELSE Ok(c, reply.status)

\* What arrived on the connection while status() waited.
StatusEventsOf(c, reply) ==
    IF reply.kind /= "packet" THEN <<>>
    ELSE IF reply.id /= StatusPacketId THEN << Event("status_unexpected", c) >>
    ELSE IF reply.json /= "ok" THEN << Event("status_malformed", c) >>
    ELSE << Event("status_response", c) >>

\* status(), third step: one response packet is awaited and decoded.
LibRecvStatusResponse(h, reply) ==
    /\ pc[h] = "status_await"
    /\ LibReturn(h, "status", StatusResultOf(connection[h], reply), "ret_status",
                 StatusEventsOf(connection[h], reply))
    /\ exchange' = [exchange EXCEPT ![h].statusReply = reply]
    /\ UNCHANGED << codec, mc_server, now, interaction, config, connection, sockets,
                    status, start, result, responses, log >>

\* ping(), first step: the Ping packet (ID 0x01, 8-byte payload) is written.
LibSendPing(h, ok) ==
    /\ pc[h] = "ping_send"
    /\ LibSend(h, "ping", "ping", ok, "ping_await", "ret_ping")
    /\ exchange' = [exchange EXCEPT ![h].ping = Went(ok)]
    /\ UNCHANGED << codec, mc_server, now, interaction, config, connection, sockets,
                    status, start, result, responses, log >>

\* The Result of ping() for what the server sent: the response must be a packet
\* with ID 0x01 carrying 8 bytes; the payload is not compared with the one sent.
PingResultOf(c, reply) ==
    IF reply.kind = "closed" THEN Err("FrameError")
    ELSE IF reply.kind = "silent" THEN Err("Timeout")
    ELSE IF reply.id /= PongPacketId THEN Err("ProtocolError")
    ELSE Ok(c, NoStatus)

\* What arrived on the connection while ping() waited.
PongEventsOf(c, reply) ==
    IF reply.kind /= "packet" THEN <<>>
    ELSE IF reply.id /= PongPacketId THEN << Event("pong_unexpected", c) >>
    ELSE << Event("pong", c) >>

\* ping(), second step: one response packet is awaited.
LibRecvPong(h, reply) ==
    /\ pc[h] = "ping_await"
    /\ LibReturn(h, "ping", PingResultOf(connection[h], reply), "ret_ping",
                 PongEventsOf(connection[h], reply))
    /\ exchange' = [exchange EXCEPT ![h].pongReply = reply]
    /\ UNCHANGED << codec, mc_server, now, interaction, config, connection, sockets,
                    status, start, result, responses, log >>

\* ------------------------------------------ the frame codec (section 4.2)

\* VarInt encoding: seven bits to the byte, the low group first, the high bit
\* set on every byte but the last.
RECURSIVE EncodeVarInt(_)
EncodeVarInt(n) ==
    IF n < 128 THEN << n >>
    ELSE << (n % 128) + 128 >> \o EncodeVarInt(n \div 128)

\* A read that gives up after four bytes.
RECURSIVE ReadVarIntFourBytes(_, _, _)
ReadVarIntFourBytes(stream, k, acc) ==
    IF k = MaxVarIntBytes - 1 THEN ReadErr("VarIntOverflow")
    ELSE IF k + 1 > Len(stream) THEN ReadErr("TruncatedStream")
    ELSE LET b == stream[k + 1]
             v == acc + (b % 128) * (128 ^ k)
         IN  IF b < 128 THEN ReadOk(v, k + 1, <<>>)
             ELSE ReadVarIntFourBytes(stream, k + 1, v)

\* VarInt decoding from the front of a stream, k bytes read so far with value
\* acc: fails when five bytes all had the high bit set, and when the stream
\* ends before a byte without it.
RECURSIVE ReadVarInt(_, _, _)
ReadVarInt(stream, k, acc) ==
    IF k = MaxVarIntBytes THEN ReadErr("VarIntOverflow")
    ELSE IF k + 1 > Len(stream) THEN ReadErr("TruncatedStream")
    ELSE LET b == stream[k + 1]
             v == acc + (b % 128) * (128 ^ k)
         IN  IF b < 128 THEN ReadOk(v, k + 1, <<>>)
             ELSE ReadVarInt(stream, k + 1, v)

DecodeVarInt(stream) == ReadVarInt(stream, 0, 0)

\* A length prefix that counts the body and not the packet ID before it.
EncodePacketCountsBody(id, body) ==
    EncodeVarInt(Len(body)) \o EncodeVarInt(id) \o body

\* encodePacket: VarInt(id) ++ body, prefixed with the VarInt of its length.
EncodePacket(id, body) ==
    LET payload == EncodeVarInt(id) \o body
    IN  EncodeVarInt(Len(payload)) \o payload

\* decodePacket: a VarInt length, that many bytes, a VarInt packet ID from the
\* front of them; what is left of them is the body.
DecodePacket(stream) ==
    LET len == DecodeVarInt(stream)
    IN  IF len.tag = "err" THEN len
        ELSE IF Len(stream) - len.used < len.value THEN ReadErr("TruncatedStream")
        ELSE LET slice == SubSeq(stream, len.used + 1, len.used + len.value)
                 id == DecodeVarInt(slice)
             IN  IF id.tag = "err" THEN id
                 ELSE ReadOk(id.value, len.used + len.value,
                             SubSeq(slice, id.used + 1, Len(slice)))

CodecStep ==
    UNCHANGED << mc_server, now, pc, interaction, config, connection, sockets,
                 inflight, ret, status, start, result, responses, log, trace,
                 exchange >>

\* A VarInt is written to the stream.
WriteVarInt(n) ==
    /\ codec.phase = "idle"
    /\ codec' = [codec EXCEPT !.phase = "varint", !.n = n, !.bytes = EncodeVarInt(n)]
    /\ CodecStep

\* A packet is written to the stream.
WritePacket(id, body) ==
    /\ codec.phase = "idle"
    /\ codec' = [codec EXCEPT !.phase = "packet", !.id = id, !.body = body,
                              !.bytes = EncodePacket(id, body)]
    /\ CodecStep

\* The stream closes a byte before the end of what was written.
StreamCloses ==
    /\ codec.phase \in {"varint", "packet"}
    /\ ~codec.cut
    /\ codec' = [codec EXCEPT !.cut = TRUE,
                              !.bytes = SubSeq(@, 1, Len(@) - 1)]
    /\ CodecStep

\* The other end reads a VarInt from the stream.
ReadVarIntBack ==
    /\ codec.phase = "varint"
    /\ codec' = [codec EXCEPT !.phase = "varint_read", !.out = DecodeVarInt(codec.bytes)]
    /\ CodecStep

\* The other end reads a packet from the stream.
ReadPacket ==
    /\ codec.phase = "packet"
    /\ codec' = [codec EXCEPT !.phase = "packet_read", !.out = DecodePacket(codec.bytes)]
    /\ CodecStep

NextCodec ==
    \/ \E n \in VarIntInputs : WriteVarInt(n)
    \/ \E id \in PacketIds, body \in Bodies : WritePacket(id, body)
    \/ StreamCloses
    \/ ReadVarIntBack
    \/ ReadPacket

\* -------------------------------------------------------------- the clock
Tick ==
    /\ now < MaxClock
    /\ now' = now + 1
    /\ UNCHANGED << codec, mc_server, pc, interaction, config, connection, sockets,
                    inflight, ret, status, start, result, responses, log, trace,
                    exchange >>

\* One step of handler h against a server that answers from the given replies.
Step(h, statusReplies, pongReplies) ==
    \/ \E i \in Interactions : InteractionCreate(h, i)
    \/ GssConnect(h)
    \/ \E ok \in BOOLEAN : LibConnect(h, ok)
    \/ GssAfterConnect(h)
    \/ \E ok \in BOOLEAN : LibSendHandshake(h, ok)
    \/ \E ok \in BOOLEAN : LibSendStatusRequest(h, ok)
    \/ \E reply \in statusReplies : LibRecvStatusResponse(h, reply)
    \/ GssAfterStatus(h)
    \/ \E ok \in BOOLEAN : LibSendPing(h, ok)
    \/ \E reply \in pongReplies : LibRecvPong(h, reply)
    \/ GssAfterPing(h)
    \/ HandlerRespond(h)
    \/ \E delivered \in BOOLEAN : HandlerAfterRespond(h, delivered)

\* One interaction on a running clock, the server answering anything it can.
NextTimed == Tick \/ Step(1, StatusReplies, PongReplies)

SpecTimed == Init /\ [][NextTimed]_vars

\* One interaction on a running clock against a server that answers the Status
\* Request with any of the rendering's payloads.
NextRender == Tick \/ Step(1, StatusRepliesOf(RenderStatuses), PongReplies)

SpecRender == Init /\ [][NextRender]_vars

\* Concurrent handlers: every interleaving of NumInteractions handler
\* invocations at their await points, at one instant of the clock and against
\* one target.
InitOneTarget == Init /\ mc_server = << "mc.example.com", 25565 >>

Next == \E h \in H : Step(h, FewStatusReplies, FewPongReplies)

Spec == InitOneTarget /\ [][Next]_vars

\* The codec alone: anything it can be given is written and read back.
SpecCodec == InitOneTarget /\ [][NextCodec]_vars

\* ------------------------------------------------------------ properties

Returned(h) == pc[h] \in {"returned", "in_respond"}

OpenedBy(h) == { c \in DOMAIN sockets : sockets[c].owner = h }

\* The operations of a query on the network, in the order of the protocol.
Rank ==
    [connect |-> 1, connected |-> 2, handshake |-> 3, status_request |-> 4,
     status_response |-> 5, status_unexpected |-> 5, status_malformed |-> 5,
     ping |-> 6, pong |-> 7, pong_unexpected |-> 7, close |-> 8]

IsWireOp(e) == e.op \in DOMAIN Rank

WireOps(h) == SelectSeq(trace[h], IsWireOp)

Ops(seq) == [i \in 1..Len(seq) |-> seq[i].op]

HasOp(h, op) == \E i \in 1..Len(trace[h]) : trace[h][i].op = op

Count(seq, op) == Cardinality({ i \in 1..Len(seq) : seq[i].op = op })

Before(seq, a, b) ==
    \A j \in 1..Len(seq) : seq[j].op = b => \E i \in 1..(j - 1) : seq[i].op = a

\* C1: a query opens one connection and uses it strictly in the order connect,
\* handshake, status request, status response, ping, pong, close: each at most
\* once, nothing is written before the connect succeeded, no ping before the
\* status response, every packet on the query's one connection, and never two
\* client calls in flight at once.
C1_StrictSequence ==
    \A h \in H :
        LET w == WireOps(h) IN
        /\ \A i, j \in 1..Len(w) : i < j => Rank[w[i].op] < Rank[w[j].op]
        /\ Before(w, "connect", "connected")
        /\ Before(w, "connected", "handshake")
        /\ Before(w, "handshake", "status_request")
        /\ Before(w, "status_request", "status_response")
        /\ Before(w, "status_response", "ping")
        /\ Before(w, "ping", "pong")
        /\ Before(w, "connected", "close")
        /\ Cardinality(inflight[h]) <= 1
        /\ Cardinality(OpenedBy(h)) <= 1
        /\ \A i \in 1..Len(w) : w[i].conn /= NoConn => w[i].conn \in OpenedBy(h)
        /\ Returned(h) => Count(w, "connect") = 1
        /\ (Returned(h) /\ OpenedBy(h) /= {}) => w[Len(w)].op = "close"

\* A query that went through the whole exchange and returned its embed.
C1_Witness ==
    \E h \in H :
        /\ Returned(h)
        /\ result[h].tag = "ok"
        /\ Ops(WireOps(h)) = << "connect", "connected", "handshake", "status_request",
                                "status_response", "ping", "pong", "close" >>

\* C2: once get_server_status has returned, on whatever path, no connection the
\* query opened is still open.
C2_ClosedOnReturn ==
    \A h \in H :
        pc[h] \in {"returned", "in_respond", "done"} =>
            \A c \in OpenedBy(h) : sockets[c].state = "closed"

\* A query that returned Timeout from the ping step, its connection open until
\* then and closed now.
C2_Witness ==
    \E h \in H :
        /\ Returned(h)
        /\ result[h] = ErrResult("Timeout")
        /\ HasOp(h, "status_response")
        /\ OpenedBy(h) /= {}
        /\ \A c \in OpenedBy(h) : sockets[c].state = "closed"

WholeExchange ==
    << "connect", "connected", "handshake", "status_request", "status_response",
       "ping", "pong", "close" >>

\* C4: a query returns a complete result or an error and nothing else.  Ok comes
\* only after the whole exchange, status response and pong included, went
\* through without a failure, and carries the received status; Err carries the
\* error and no embed, and the response built from it has the error's text and
\* neither title nor footer.
C4_AllOrNothing ==
    \A h \in H :
        Returned(h) =>
            /\ result[h].tag \in {"ok", "err"}
            /\ result[h].tag = "ok" =>
                /\ Ops(WireOps(h)) = WholeExchange
                /\ ~HasOp(h, "failed")
                /\ status[h] \in Statuses
                /\ result[h].err = ""
                /\ result[h].embed.title = << status[h].description.text >>
                /\ Len(result[h].embed.description) >= 5
                /\ result[h].embed.description[2] = ToString(status[h].online)
                /\ result[h].embed.description[4] = ToString(status[h].max)
                /\ Len(result[h].embed.footer) = 3
            /\ result[h].tag = "err" =>
                /\ HasOp(h, "failed")
                /\ result[h].err /= ""
                /\ result[h].embed = NoEmbed
                /\ pc[h] = "in_respond" =>
                    /\ responses[h][Len(responses[h])].title = <<>>
                    /\ responses[h][Len(responses[h])].footer = <<>>
                    /\ responses[h][Len(responses[h])].description = << result[h].err >>

\* A ping that failed after the status had been received: only the error comes back.
C4_Witness ==
    \E h \in H :
        /\ pc[h] = "in_respond"
        /\ HasOp(h, "status_response")
        /\ HasOp(h, "ping")
        /\ status[h] \in Statuses
        /\ result[h].tag = "err"
        /\ result[h].embed = NoEmbed

\* C5: when the server answers the Status Request with a packet whose ID is not
\* 0x00, status() ends with ProtocolError as a value: the query returns that
\* error, no ping is called or written, nothing panics, and the handler goes on
\* to answer the interaction with the error's embed.
C5_WrongPacketId ==
    \A h \in H :
        HasOp(h, "status_unexpected") =>
            /\ pc[h] \in {"ret_status", "returned", "in_respond"}
            /\ ~HasOp(h, "ping")
            /\ "ping" \notin inflight[h]
            /\ pc[h] = "ret_status" => ret[h] = Err("ProtocolError")
            /\ Returned(h) => result[h] = ErrResult("ProtocolError")
            /\ pc[h] = "returned" => ENABLED HandlerRespond(h)
            /\ pc[h] = "in_respond" => responses[h] = << ErrorEmbed("ProtocolError") >>

\* The interaction answered with the protocol error after a packet of ID 0x02.
C5_Witness ==
    \E h \in H :
        /\ HasOp(h, "status_unexpected")
        /\ exchange[h].statusReply.id = 2
        /\ pc[h] = "in_respond"
        /\ responses[h] = << ErrorEmbed("ProtocolError") >>

\* C6: nothing is tried twice.  A handler calls connect at most once, writes at
\* most one handshake, one Status Request and one Ping, opens at most one
\* connection, and after the first failure it only closes, returns and responds.
C6_NoRetry ==
    \A h \in H :
        /\ \A op \in {"connect", "handshake", "status_request", "ping", "respond"} :
              Count(trace[h], op) <= 1
        /\ Cardinality(OpenedBy(h)) <= 1
        /\ \A i, j \in 1..Len(trace[h]) :
              (i < j /\ trace[h][i].op = "failed") =>
                  trace[h][j].op \in {"close", "return_err", "respond"}

\* A status step that failed on the open connection, followed by the close, the
\* return and the response and nothing else.
C6_Witness ==
    \E h \in H :
        /\ pc[h] = "in_respond"
        /\ Ops(trace[h]) = << "connect", "connected", "handshake", "status_request",
                              "failed", "close", "return_err", "respond" >>

\* What a query returns when it runs alone against the exchange x and measures
\* the latency lat: the first step that failed decides the error, and only an
\* exchange without a failure gives the embed of the status the server sent.
Expected(x, lat) ==
    IF x.connect = "fail" THEN ErrResult("ConnectError")
    ELSE IF x.handshake = "fail" \/ x.request = "fail" THEN ErrResult("Timeout")
    ELSE IF x.statusReply.kind = "closed" THEN ErrResult("FrameError")
    ELSE IF x.statusReply.kind = "silent" THEN ErrResult("Timeout")
    ELSE IF x.statusReply.id /= 0 THEN ErrResult("ProtocolError")
    ELSE IF x.statusReply.json /= "ok" THEN ErrResult("MalformedDescription")
    ELSE IF x.ping = "fail" THEN ErrResult("Timeout")
    ELSE IF x.pongReply.kind = "closed" THEN ErrResult("FrameError")
    ELSE IF x.pongReply.kind = "silent" THEN ErrResult("Timeout")
    ELSE IF x.pongReply.id /= 1 THEN ErrResult("ProtocolError")
    ELSE OkResult(StatusEmbed(x.statusReply.status, lat))

\* C7: nothing is carried from one query to the next.  A query starts with no
\* connection, no status and no result whatever happened before, the connection
\* it holds is one it opened itself, the status it holds is the one the server
\* sent to it, and what it returns is decided by its own exchange alone.
C7_NoReuse ==
    \A h \in H :
        /\ pc[h] = "gss_entry" =>
              /\ connection[h] = NoConn
              /\ config[h] = NoConfig
              /\ ret[h] = NoRet
              /\ status[h] = NoStatus
              /\ result[h] = NoResult
              /\ inflight[h] = {}
              /\ trace[h] = <<>>
              /\ OpenedBy(h) = {}
        /\ connection[h] /= NoConn =>
              /\ connection[h] \in OpenedBy(h)
              /\ HasOp(h, "connected")
        /\ status[h] /= NoStatus => status[h] = exchange[h].statusReply.status
        /\ Returned(h) => \E lat \in 0..now : result[h] = Expected(exchange[h], lat)

\* A query that succeeds after an earlier one, finished by now, had opened its
\* connection and ended in an error.
C7_Witness ==
    \E g, h \in H :
        /\ g < h
        /\ pc[g] = "done" /\ Len(log[g]) > 0 /\ OpenedBy(g) /= {}
        /\ Returned(h) /\ result[h].tag = "ok"

\* Everything handler h owns.
Frame(h) ==
    << pc[h], interaction[h], config[h], connection[h], inflight[h], ret[h],
       status[h], start[h], result[h], responses[h], log[h], trace[h], exchange[h] >>

\* Queries do not meet: every packet of a query is on a connection that query
\* opened, no two queries hold the same connection, and a query that returned
\* returned what its own exchange decides.
C8_Apart ==
    \A h \in H :
        /\ \A i \in 1..Len(trace[h]) :
              trace[h][i].conn /= NoConn => sockets[trace[h][i].conn].owner = h
        /\ \A g \in H \ {h} :
              connection[h] /= NoConn => connection[h] /= connection[g]
        /\ Returned(h) => \E lat \in 0..now : result[h] = Expected(exchange[h], lat)

\* A step of one handler leaves every other handler's state, the bot's target
\* and the other handlers' connections as they were.
C8_StepOfOne ==
    \A h \in H :
        Frame(h)' /= Frame(h) =>
            /\ \A g \in H \ {h} : Frame(g)' = Frame(g)
            /\ mc_server' = mc_server
            /\ \A c \in DOMAIN sockets : sockets[c].owner /= h => sockets'[c] = sockets[c]

\* C8: under every interleaving of the handlers, each query sends and receives
\* only on the connection it opened, no step of one query changes anything of
\* another, and each query returns what it would return alone.
C8_Independent == [](C8_Apart) /\ [][C8_StepOfOne]_vars

\* Two queries in flight at once, each on its own open connection.
C8_Witness ==
    \E g, h \in H :
        /\ g /= h
        /\ pc[g] = "status_await" /\ pc[h] = "ping_await"
        /\ connection[g] /= connection[h]
        /\ sockets[connection[g]].state = "open"
        /\ sockets[connection[h]].state = "open"

\* The session states of section 4.3 and the operation that enters each.
SessionStates ==
    << "Disconnected", "Connected", "HandshakeSent", "AwaitingStatus", "StatusReceived" >>

Entered ==
    [connected |-> "Connected", handshake |-> "HandshakeSent",
     status_request |-> "AwaitingStatus", status_response |-> "StatusReceived",
     failed |-> "Failed"]

IsSessionOp(e) == e.op \in DOMAIN Entered

\* The session state of h's query: the one its last operation entered.
SessionState(h) ==
    LET ops == SelectSeq(trace[h], IsSessionOp) IN
    IF Len(ops) = 0 THEN "Disconnected" ELSE Entered[ops[Len(ops)].op]

Position(st) == CHOOSE i \in 1..Len(SessionStates) : SessionStates[i] = st

OneForward(a, b) ==
    /\ a /= "Failed"
    /\ b /= "Failed"
    /\ Position(b) = Position(a) + 1

\* The handler's query exists: from the interaction to the handler's end.
InQuery(h) == pc[h] \notin {"idle", "done", "panicked"}

\* C9 as stated: the session state stays, moves one state forward, or moves to
\* Failed from a state other than StatusReceived and Failed; StatusReceived and
\* Failed are never left.
C9_AsStated ==
    [][\A h \in H :
          (InQuery(h) /\ InQuery(h)') =>
              \/ SessionState(h)' = SessionState(h)
              \/ OneForward(SessionState(h), SessionState(h)')
              \/ /\ SessionState(h)' = "Failed"
                 /\ SessionState(h) \notin {"StatusReceived", "Failed"}]_vars

\* C9, amended: the session state stays, moves one state forward, or moves to
\* Failed from any other state, StatusReceived included (the ping step failed);
\* Failed is never left, and StatusReceived is left only for Failed.
C9_ForwardOrFailed ==
    [][\A h \in H :
          (InQuery(h) /\ InQuery(h)') =>
              \/ SessionState(h)' = SessionState(h)
              \/ OneForward(SessionState(h), SessionState(h)')
              \/ /\ SessionState(h)' = "Failed"
                 /\ SessionState(h) /= "Failed"]_vars

\* A session that reached StatusReceived and then failed in the ping step, and
\* the query returned the error.
C9_Witness ==
    \E h \in H :
        /\ Returned(h)
        /\ HasOp(h, "status_response")
        /\ SessionState(h) = "Failed"
        /\ result[h].tag = "err"

\* The server or the network misbehaved in h's query: the connect was refused,
\* the stream was closed, or a packet with a wrong ID or a malformed status came.
Misbehaved(h) ==
    \/ exchange[h].connect = "fail"
    \/ exchange[h].statusReply.kind = "closed"
    \/ exchange[h].statusReply.kind = "packet" /\ exchange[h].statusReply.id /= 0
    \/ exchange[h].statusReply.kind = "packet" /\ exchange[h].statusReply.json /= "ok"
    \/ exchange[h].pongReply.kind = "closed"
    \/ exchange[h].pongReply.kind = "packet" /\ exchange[h].pongReply.id /= 1

\* C11: whatever the server does wrong, the handler does not panic: the failure
\* is an Err value when the client call comes back, the query returns that
\* error, and the handler responds once with an embed whose only text is the
\* error's.  Only a command of another name ends a handler in a panic.
C11_ErrorsAreValues ==
    \A h \in H :
        /\ pc[h] = "panicked" => interaction[h].name /= "status"
        /\ Misbehaved(h) =>
            /\ pc[h] \in {"ret_connect", "ret_status", "ret_ping", "returned", "in_respond"}
            /\ pc[h] \in {"ret_connect", "ret_status", "ret_ping"} =>
                  /\ ret[h].tag = "err"
                  /\ ret[h].err = Expected(exchange[h], 0).err
            /\ Returned(h) =>
                  /\ result[h].tag = "err"
                  /\ result[h] = Expected(exchange[h], 0)
            /\ pc[h] = "returned" => ENABLED HandlerRespond(h)
            /\ pc[h] = "in_respond" =>
                  /\ responses[h] = << ErrorEmbed(result[h].err) >>
                  /\ responses[h][1].description = << Expected(exchange[h], 0).err >>
                  /\ log[h] = << "error: " \o result[h].err >>

\* A status whose JSON does not decode, answered with the error's embed.
C11_Witness ==
    \E h \in H :
        /\ exchange[h].statusReply.json = "malformed"
        /\ pc[h] = "in_respond"
        /\ responses[h] = << ErrorEmbed("MalformedDescription") >>

\* The step in which get_server_status returns Ok: ping() came back well.
ReturnsOk(h) == pc[h] = "ret_ping" /\ ret[h].tag = "ok" /\ pc'[h] = "returned"

NoNames(s) == ~s.sample.some \/ s.sample.players = <<>>

\* The same status with the sample absent where it was empty and empty where it
\* was absent.
OtherEmptySample(s) ==
    [s EXCEPT !.sample = IF s.sample.some THEN None ELSE Some(<<>>)]

\* C12: a status without players.sample and one with an empty players.sample
\* are answered alike.  The query returns Ok, the body is the counts' header
\* with the same online and max and no name after it, and the whole embed is
\* the one the other of the two statuses gives.
C12_AbsentAsEmpty ==
    [][\A h \in H :
          (ReturnsOk(h) /\ NoNames(status[h])) =>
              /\ result'[h].tag = "ok"
              /\ result'[h].embed.description =
                    << "Players (", ToString(status[h].online), "/",
                       ToString(status[h].max), "):\n" >>
              /\ result'[h].embed =
                    StatusEmbed(OtherEmptySample(status[h]), now - start[h])]_vars

\* A query answered with a status that has no players.sample returned its embed.
C12_Witness ==
    \E h \in H :
        /\ Returned(h)
        /\ result[h].tag = "ok"
        /\ ~status[h].sample.some
        /\ status[h].online = 2
        /\ Len(result[h].embed.description) = 5

\* The names of the status's sample in the server's order, none when the
\* sample is absent.
SampleNames(s) ==
    IF s.sample.some
    THEN [i \in 1..Len(s.sample.players) |-> s.sample.players[i].name]
    ELSE <<>>

\* C13: the embed of a successful query is made of the received status and the
\* measured latency only.  Its body is the online and max counts' header and
\* after it the name of every sample entry, once each and in the server's
\* order, with one newline between neighbours and none before the first or
\* after the last; its footer is the latency in milliseconds.
C13_BodyAndFooter ==
    [][\A h \in H :
          ReturnsOk(h) =>
              LET names == SampleNames(status[h])
                  n == Len(names)
                  body == result'[h].embed.description
              IN  /\ result'[h].tag = "ok"
                  /\ Len(body) = 5 + (IF n = 0 THEN 0 ELSE 2 * n - 1)
                  /\ SubSeq(body, 1, 5) =
                        << "Players (", ToString(status[h].online), "/",
                           ToString(status[h].max), "):\n" >>
                  /\ \A i \in 1..n : body[5 + 2 * i - 1] = names[i]
                  /\ \A i \in 1..(n - 1) : body[5 + 2 * i] = "\n"
                  /\ result'[h].embed.footer =
                        << "Ping: ", ToString(now - start[h]), " ms" >>]_vars

\* A query answered with a sample of two entries of one name returned an
\* embed that names both, a millisecond after the ping was sent.
C13_Witness ==
    \E h \in H :
        /\ Returned(h)
        /\ result[h].tag = "ok"
        /\ status[h].online = 2
        /\ result[h].embed.description =
              << "Players (", "2", "/", "20", "):\n", "Bob", "\n", "Bob" >>
        /\ result[h].embed.footer = << "Ping: ", "1", " ms" >>

\* The same status with its description in the other of the two variants.
OtherVariant(s) ==
    [s EXCEPT !.description =
        IF s.description.variant = "Plain" THEN Object(s.description.text)
        ELSE Plain(s.description.text)]

\* C14: the title of the embed is the description's text, whether the server
\* sent the description as a bare string or as an object with a text member,
\* and the two variants of one text give embeds that differ in nothing.
C14_VariantsAlike ==
    [][\A h \in H :
          ReturnsOk(h) =>
              /\ result'[h].tag = "ok"
              /\ result'[h].embed.title = << status[h].description.text >>
              /\ result'[h].embed =
                    StatusEmbed(OtherVariant(status[h]), now - start[h])]_vars

\* A query answered with an Object description returned an embed titled with
\* the object's text.
C14_Witness ==
    \E h \in H :
        /\ Returned(h)
        /\ result[h].tag = "ok"
        /\ status[h].description = Object("Hi")
        /\ result[h].embed.title = << "Hi" >>

\* C15: the target of a query is the host it was built from with the given
\* port, and a target built without a port has port 25565; setting the port
\* leaves the host as it was.  Building the target opens no socket and always
\* goes on to connect(): it has no failure to return.
C15_TargetHeld ==
    \A h \in H :
        /\ \A t \in Targets :
              /\ Build(t[1]) = << t[1], 25565 >>
              /\ WithPort(Build(t[1]), t[2]) = t
        /\ pc[h] = "gss_entry" =>
              /\ config[h] = NoConfig
              /\ ENABLED GssConnect(h)
        /\ pc[h] = "in_connect" =>
              /\ config[h] = << mc_server[1], mc_server[2] >>
              /\ connection[h] = NoConn
              /\ OpenedBy(h) = {}
              /\ Ops(trace[h]) = << "connect" >>
              /\ ret[h] = NoRet
              /\ result[h] = NoResult
        /\ config[h] \in { NoConfig, << mc_server[1], mc_server[2] >> }
        /\ \A c \in OpenedBy(h) : sockets[c].target = << mc_server[1], mc_server[2] >>

\* A bot set up with a port other than the default one has built its target
\* and connected to it.
C15_Witness ==
    \E h \in H :
        /\ mc_server[2] = 25566
        /\ config[h] = << "mc.example.com", 25566 >>
        /\ \E c \in OpenedBy(h) : sockets[c].target = << "mc.example.com", 25566 >>

\* C16: a VarInt written for any n of 0..2^31-1 is read back as n when the
\* whole of it arrives, and it is never longer than 5 bytes.
C16_VarIntRoundTrip ==
    /\ codec.phase \in {"varint", "varint_read"} =>
          /\ codec.n \in 0..2147483647
          /\ Len(EncodeVarInt(codec.n)) <= 5
          /\ ~codec.cut => codec.bytes = EncodeVarInt(codec.n)
    /\ (codec.phase = "varint_read" /\ ~codec.cut) =>
          /\ codec.out.tag = "ok"
          /\ codec.out.value = codec.n
          /\ codec.out.used = Len(codec.bytes)

\* 2^31-1 was written in five bytes and read back.
C16_Witness ==
    /\ codec.phase = "varint_read"
    /\ codec.n = 2147483647
    /\ codec.bytes = << 255, 255, 255, 255, 7 >>
    /\ codec.out.tag = "ok"
    /\ codec.out.value = 2147483647

\* C17: a packet written as (id, body) is read back as (id, body) when the
\* whole of it arrives, and the length it is prefixed with is the number of
\* bytes of VarInt(id) followed by body.
C17_FrameRoundTrip ==
    /\ (codec.phase \in {"packet", "packet_read"} /\ ~codec.cut) =>
          LET prefix == DecodeVarInt(codec.bytes)
              idBytes == EncodeVarInt(codec.id)
          IN  /\ prefix.tag = "ok"
              /\ prefix.value = Len(idBytes) + Len(codec.body)
              /\ Len(codec.bytes) = prefix.used + prefix.value
              /\ SubSeq(codec.bytes, prefix.used + 1, Len(codec.bytes)) =
                    idBytes \o codec.body
    /\ (codec.phase = "packet_read" /\ ~codec.cut) =>
          /\ codec.out.tag = "ok"
          /\ codec.out.value = codec.id
          /\ codec.out.body = codec.body
          /\ codec.out.used = Len(codec.bytes)

\* A packet with a two-byte ID and a body that begins with a byte with the
\* high bit set was written and read back.
C17_Witness ==
    /\ codec.phase = "packet_read"
    /\ ~codec.cut
    /\ codec.id = 128
    /\ codec.body = << 128, 1 >>
    /\ codec.bytes = << 4, 128, 1, 128, 1 >>
    /\ codec.out = ReadOk(128, 5, << 128, 1 >>)

\* The operation was not in h's trace before the step and is in it after.
Emits(h, op) ==
    /\ ~HasOp(h, op)
    /\ \E i \in 1..Len(trace'[h]) : trace'[h][i].op = op

\* C18: the latency is the time from an Instant taken when the Status
\* Response has been received and the Ping is not yet sent to a reading taken
\* when the Pong has been received.  The clock never runs backwards, so the
\* latency is not negative and holds nothing of the time of connecting, of the
\* handshake or of the status exchange, all of which ended before its start.
C18_ClockBracketsPing ==
    [][/\ now' >= now
       /\ \A h \in H :
            /\ (pc[h] = "ret_status" /\ pc'[h] = "ping_send") =>
                  /\ HasOp(h, "status_response")
                  /\ ~HasOp(h, "ping")
                  /\ start'[h] = now
            /\ (start'[h] /= start[h] /\ pc'[h] /= "done") =>
                  (pc[h] = "ret_status" /\ pc'[h] = "ping_send")
            /\ Emits(h, "ping") =>
                  /\ pc[h] = "ping_send"
                  /\ start[h] <= now
            /\ Emits(h, "pong") => (HasOp(h, "ping") /\ start[h] <= now)
            /\ ReturnsOk(h) =>
                  /\ HasOp(h, "pong")
                  /\ Before(trace[h], "status_response", "ping")
                  /\ now - start[h] >= 0
                  /\ result'[h].embed.footer =
                        << "Ping: ", ToString(now - start[h]), " ms" >>]_vars

\* A query whose status arrived a millisecond after it began and whose pong
\* arrived a millisecond after that returned a latency of one millisecond.
C18_Witness ==
    \E h \in H :
        /\ Returned(h)
        /\ result[h].tag = "ok"
        /\ start[h] = 1
        /\ now = 2
        /\ result[h].embed.footer = << "Ping: ", "1", " ms" >>

IsStatusCommand(h) ==
    interaction[h] = [type |-> "ApplicationCommand", name |-> "status"]

\* The handler of a "status" command has one response with Discord once it
\* has called create_interaction_response and none before; the response is
\* made when get_server_status has returned and is the embed it returned or
\* the embed of the error it returned.
C19_OneResponse ==
    \A h \in H :
        IsStatusCommand(h) =>
            /\ Len(responses[h]) = (IF pc[h] \in {"in_respond", "done"} THEN 1 ELSE 0)
            /\ pc[h] = "returned" =>
                  /\ result[h].tag \in {"ok", "err"}
                  /\ ENABLED HandlerRespond(h)
            /\ pc[h] = "in_respond" =>
                  /\ Count(trace[h], "respond") = 1
                  /\ Before(trace[h], "return_" \o result[h].tag, "respond")
                  /\ result[h].tag = "ok" =>
                        /\ responses[h][1] = result[h].embed
                        /\ responses[h][1] /= ErrorEmbed(result[h].err)
                        /\ responses[h][1].footer /= <<>>
                  /\ result[h].tag = "err" =>
                        /\ responses[h][1] = ErrorEmbed(result[h].err)
                        /\ responses[h][1].footer = <<>>
                  /\ result[h].tag \in {"ok", "err"}

\* The call of create_interaction_response ends the handler whether the
\* response was delivered or not; a failure adds its line to the log and the
\* response is sent no second time.
C19_FailureLogged ==
    \A h \in H :
        /\ (pc[h] = "in_respond" /\ pc'[h] /= pc[h]) =>
              /\ pc'[h] = "done"
              /\ responses'[h] = responses[h]
              /\ log'[h] \in { log[h], Append(log[h], "Cannot respond to slash command") }
        /\ pc[h] = "done" =>
              /\ pc'[h] = "done"
              /\ responses'[h] = responses[h]
              /\ log'[h] = log[h]
        /\ responses'[h] /= responses[h] =>
              /\ pc[h] = "returned"
              /\ pc'[h] = "in_respond"
              /\ responses'[h] = << ResponseContent(result[h]) >>

\* C19: for every "status" command the handler attempts exactly one
\* interaction response, after the query has finished, carrying the status
\* embed or the error embed and never both or none; when the response cannot
\* be delivered the failure is logged and the response is not attempted again.
C19_ExactlyOneResponse == []C19_OneResponse /\ [][C19_FailureLogged]_vars

\* A query that failed was answered with its error's embed, the response could
\* not be delivered, and the handler ended with the failure in its log.
C19_Witness ==
    \E h \in H :
        /\ IsStatusCommand(h)
        /\ pc[h] = "done"
        /\ Len(responses[h]) = 1
        /\ responses[h][1].title = <<>>
        /\ Len(log[h]) = 2
        /\ log[h][2] = "Cannot respond to slash command"

\* Only the handler of a "status" command has a config, a connection, a trace
\* or a response; every connection belongs to such a handler and goes to the
\* bot's target.
C20_OnlyStatusConnects ==
    /\ \A h \in H :
          ~IsStatusCommand(h) =>
              /\ pc[h] \in {"idle", "done", "panicked"}
              /\ OpenedBy(h) = {}
              /\ connection[h] = NoConn
              /\ config[h] = NoConfig
              /\ inflight[h] = {}
              /\ trace[h] = <<>>
              /\ responses[h] = <<>>
    /\ \A c \in DOMAIN sockets :
          /\ sockets[c].owner \in H
          /\ IsStatusCommand(sockets[c].owner)
          /\ sockets[c].target = << mc_server[1], mc_server[2] >>

\* No step changes the bot's target, and the step in which an interaction
\* other than a "status" command arrives opens no connection and sends nothing.
C20_TargetFixed ==
    /\ mc_server' = mc_server
    /\ \A h \in H :
          (pc[h] = "idle" /\ pc'[h] /= "idle" /\ ~IsStatusCommand(h)') =>
              /\ sockets' = sockets
              /\ responses' = responses
              /\ pc'[h] \in {"done", "panicked"}

\* C20: a connection is opened only for an ApplicationCommand interaction
\* named "status" and always to the (host, port) the bot was set up with; any
\* other interaction opens no connection and sends no response, and no
\* interaction changes the target.
C20_StatusOnly == []C20_OnlyStatusConnects /\ [][C20_TargetFixed]_vars

\* A command of another name has come and gone without a connection or a
\* response while the query of a "status" command holds an open connection to
\* the bot's target.
C20_Witness ==
    \E g, h \in H :
        /\ interaction[g] = [type |-> "ApplicationCommand", name |-> "other"]
        /\ pc[g] = "panicked"
        /\ OpenedBy(g) = {}
        /\ responses[g] = <<>>
        /\ IsStatusCommand(h)
        /\ connection[h] /= NoConn
        /\ sockets[connection[h]].state = "open"
        /\ sockets[connection[h]].target = mc_server
====
